---- MODULE Spec2Model ----
(***************************************************************************)
(* Process supervision and pairing protocol of the moonlight-embedded      *)
(* launcher (resources/lib/utils.py, resources/lib/moonlight.py).          *)
(*                                                                         *)
(* One supervising thread (the add-on) runs either wait_or_cancel on a     *)
(* process handle or a pairing session; the helper process, the user       *)
(* pressing "cancel" and the container runtime run concurrently with it.   *)
(* A second specification, SpecLaunch, runs launch on the values that      *)
(* run_moonlight and wait_or_cancel hand to load_installed_games.          *)
(*                                                                         *)
(* Text is a sequence of tokens (each token a piece of the real text), so  *)
(* that chunking, regular-expression search and decoding are computed.     *)
(***************************************************************************)
EXTENDS Integers, Sequences, FiniteSets, TLC

VARIABLES
    op,              \* entry point exercised: "wait" (wait_or_cancel), "pair"
                     \* or "launch"
    pc,              \* position of the supervising thread
    opt,             \* pair: answer of the yes/no dialog
    procPresent,     \* the Python variable proc is a Popen object (not None)
    procState,       \* helper process: "none", "running", "exited"
    script,          \* bytes the helper process writes during its life
    toWrite,         \* bytes it has not written yet
    pipe,            \* bytes written to the stdout pipe and not read yet
    exitCode,        \* exit status of the helper process once exited
    returncode,      \* proc.returncode as Python has observed it
    terminateCalled, \* proc.terminate() reached the process
    sinkState,       \* progress dialog: "new", "open", "closed"
    closeCount,      \* number of pDialog.close() calls
    lastUpdate,      \* last pDialog.update(percent, message)
    updAfterClose,   \* an update was made on a closed dialog
    canceled,        \* the user pressed cancel (pDialog.iscanceled())
    stdout,          \* pair: accumulated decoded output
    codeFlag,        \* pair: PIN already disclosed
    pinShown,        \* pair: the PIN codes disclosed through update(50, ...)
    alreadyShown,    \* pair: "credentials already exist" dialog shown
    noHostShown,     \* run_moonlight: "no host detected" dialog shown
    errShown,        \* wait_or_cancel: the messages of the error dialogs shown
    ret,             \* value returned by wait_or_cancel
    outcome,         \* "running", "returned", "raised"
    running,         \* container runtime: names of the running containers
    stopInFlight,    \* a "docker container stop" process is still running
    stopCount,       \* number of stop commands issued
    listing,         \* outcome of "docker ps": "none","failed","absent","present"
    loopExit,        \* why the poll loop ended: "none","absent","exit","cancel"
    cancelAtObs,     \* value of canceled when the loop observed the exit
    cancelBeforeExit,\* cancel was pressed while the process was running
    reported,        \* some iscanceled() call returned True
    fault,           \* exception raised in a try block: "none", "absent",
                     \* "decode", "terminate"
    gameList,        \* launch: value returned by load_installed_games
    gameIdx,         \* launch: index chosen in the selection dialog
    selectedGame,    \* launch: name of the game to stream
    launchMsg,       \* launch: message dialog shown before an early return
    kodi,            \* the front-end service: "running" or "stopped"
    kodiStops,       \* number of "systemctl stop kodi" commands run
    kodiStarts,      \* number of "systemctl start kodi" commands run
    streamRuns,      \* number of "docker run ... stream" commands run
    streamWaits      \* number of "docker wait moonlight" commands run

vars == <<op, pc, opt, procPresent, procState, script, toWrite, pipe, exitCode,
          returncode, terminateCalled, sinkState, closeCount, lastUpdate,
          updAfterClose, canceled, stdout, codeFlag, pinShown, alreadyShown,
          noHostShown, errShown, ret, outcome, running, stopInFlight,
          stopCount, listing, loopExit, cancelAtObs, cancelBeforeExit,
          reported, fault, gameList, gameIdx, selectedGame, launchMsg, kodi,
          kodiStops, kodiStarts, streamRuns, streamWaits>>

procVars == <<procPresent, procState, script, toWrite, pipe, exitCode>>
sinkVars == <<sinkState, closeCount, lastUpdate, updAfterClose>>
pairVars == <<stdout, codeFlag, pinShown, alreadyShown>>
reaperVars == <<running, stopInFlight, stopCount, listing>>
ghostVars == <<loopExit, cancelAtObs, cancelBeforeExit, reported>>
launchVars == <<gameList, gameIdx, selectedGame, launchMsg, kodi, kodiStops,
                kodiStarts, streamRuns, streamWaits>>

----------------------------------------------------------------------------
(* Bounds *)

MaxPinLen == 2      \* longest PIN, in digits
MaxOut == 3         \* longest output of a process given to wait_or_cancel
PipeCap == 2        \* capacity of the stdout pipe, in tokens
MaxListLen == 6     \* longest output of the list helper, in tokens

----------------------------------------------------------------------------
(* Text *)

Digits == {"4", "8"}
BadByte == "\\xff"
PinLiteral == <<"Please enter the following PIN", " on the target PC: ">>
AlreadyLiteral == <<"Failed to pair to server: ", "Already paired">>
OtherText == <<"Searching for server...">>
Message == <<"message">>
Complete == <<"Complete!">>
ContainerName == <<"moonlight_", "pair">>
OtherContainer == <<"moonlight_", "pair", "_old">>
ExitCodes == {0, 1, 2}

SeqsUpTo(S, n) == UNION {[1..k -> S] : k \in 0..n}

None == [tag |-> "None", val |-> <<>>]
Str(s) == [tag |-> "str", val |-> s]
NoCode == [has |-> FALSE, val |-> 0]
Code(c) == [has |-> TRUE, val |-> c]
NoUpdate == <<0, <<>>>>

\* a in b  (Python substring test)
IsSub(a, b) ==
    \E i \in 1..(Len(b) - Len(a) + 1) : SubSeq(b, i, i + Len(a) - 1) = a

\* bytes.decode(): strict UTF-8, raises on an invalid byte
Decodable(bytes) == \A i \in 1..Len(bytes) : bytes[i] # BadByte

\* re.search(r"Please enter the following PIN on the target PC: (\d+)", s)
PinMatches(s) ==
    {i \in 1..Len(s) :
        /\ i + Len(PinLiteral) <= Len(s)
        /\ SubSeq(s, i, i + Len(PinLiteral) - 1) = PinLiteral
        /\ s[i + Len(PinLiteral)] \in Digits}

PinFound(s) == PinMatches(s) # {}

\* code.groups()[0]: the longest run of digits after the leftmost match
PinGroup(s) ==
    LET i == CHOOSE m \in PinMatches(s) : \A n \in PinMatches(s) : m <= n
        from == i + Len(PinLiteral)
        to == CHOOSE k \in from..Len(s) :
                  /\ \A j \in from..k : s[j] \in Digits
                  /\ (k = Len(s) \/ s[k + 1] \notin Digits)
    IN SubSeq(s, from, to)

PinMessage(code) ==
    <<"Please enter authentication code ">> \o code \o <<" on Gamestream host">>

\* re.search(r"Failed to pair to server: Already paired", s)
AlreadyFound(s) == IsSub(AlreadyLiteral, s)

WaitScripts == SeqsUpTo({"out", BadByte}, MaxOut)
PinScripts == {PinLiteral \o d : d \in SeqsUpTo(Digits, MaxPinLen) \ {<<>>}}
PairScripts == PinScripts \cup {AlreadyLiteral, OtherText}

----------------------------------------------------------------------------
(* Progress dialog *)

Update(pct, msg) ==
    /\ lastUpdate' = <<pct, msg>>
    /\ updAfterClose' = (updAfterClose \/ sinkState = "closed")
    /\ UNCHANGED <<sinkState, closeCount>>

Create ==
    /\ sinkState' = "open"
    /\ UNCHANGED <<closeCount, lastUpdate, updAfterClose>>

Close ==
    /\ sinkState' = "closed"
    /\ closeCount' = closeCount + 1
    /\ UNCHANGED <<lastUpdate, updAfterClose>>

----------------------------------------------------------------------------
Init ==
    /\ op \in {"wait", "pair"}
    /\ pc = IF op = "wait" THEN "w_launch" ELSE "p_yesno"
    /\ opt = FALSE
    /\ procPresent = FALSE
    /\ procState = "none"
    /\ script = <<>>
    /\ toWrite = <<>>
    /\ pipe = <<>>
    /\ exitCode = 0
    /\ returncode = NoCode
    /\ terminateCalled = FALSE
    /\ sinkState = "new"
    /\ closeCount = 0
    /\ lastUpdate = NoUpdate
    /\ updAfterClose = FALSE
    /\ canceled = FALSE
    /\ stdout = <<>>
    /\ codeFlag = FALSE
    /\ pinShown = <<>>
    /\ alreadyShown = FALSE
    /\ noHostShown = FALSE
    /\ errShown = <<>>
    /\ ret = [exitcode |-> 0, stdout |-> None]
    /\ outcome = "running"
    /\ running \in SUBSET {ContainerName, OtherContainer}
    /\ stopInFlight = FALSE
    /\ stopCount = 0
    /\ listing = "none"
    /\ loopExit = "none"
    /\ cancelAtObs = FALSE
    /\ cancelBeforeExit = FALSE
    /\ reported = FALSE
    /\ fault = "none"
    /\ gameList = None
    /\ gameIdx = -1
    /\ selectedGame = <<>>
    /\ launchMsg = "none"
    /\ kodi = "running"
    /\ kodiStops = 0
    /\ kodiStarts = 0
    /\ streamRuns = 0
    /\ streamWaits = 0

----------------------------------------------------------------------------
(* Helper process, user and container runtime (the environment) *)

\* the helper writes its next bytes; a write blocks while the pipe is full
ProcWrite ==
    /\ pc # "done"
    /\ procState = "running"
    /\ toWrite # <<>>
    /\ Len(pipe) < PipeCap
    /\ pipe' = Append(pipe, Head(toWrite))
    /\ toWrite' = Tail(toWrite)
    /\ UNCHANGED <<op, pc, opt, procPresent, procState, script, exitCode,
                   returncode, terminateCalled, sinkVars, canceled, pairVars,
                   noHostShown, errShown, ret, outcome, reaperVars, ghostVars,
                   fault,
                   launchVars>>

\* the helper exits once it has written all its output
ProcExit ==
    /\ pc # "done"
    /\ procState = "running"
    /\ toWrite = <<>>
    /\ \E c \in ExitCodes : exitCode' = c
    /\ procState' = "exited"
    /\ UNCHANGED <<op, pc, opt, procPresent, script, toWrite, pipe,
                   returncode, terminateCalled, sinkVars, canceled, pairVars,
                   noHostShown, errShown, ret, outcome, reaperVars, ghostVars,
                   fault,
                   launchVars>>

\* the user presses cancel on the open progress dialog
UserCancel ==
    /\ pc # "done"
    /\ sinkState = "open"
    /\ ~canceled
    /\ canceled' = TRUE
    /\ cancelBeforeExit' = (procState = "running")
    /\ UNCHANGED <<op, pc, opt, procVars, returncode, terminateCalled,
                   sinkVars, pairVars, noHostShown, errShown, ret, outcome,
                   reaperVars, loopExit, cancelAtObs, reported, fault,
                   launchVars>>

\* the "docker container stop" process finishes: the container is gone
StopCompletes ==
    /\ pc # "done"
    /\ stopInFlight
    /\ stopInFlight' = FALSE
    /\ running' = running \ {ContainerName}
    /\ UNCHANGED <<op, pc, opt, procVars, returncode, terminateCalled,
                   sinkVars, canceled, pairVars, noHostShown, errShown, ret,
                   outcome, stopCount, listing, ghostVars, fault,
                   launchVars>>

----------------------------------------------------------------------------
(* utils.subprocess_runner as called by install / update_moonlight *)

\* subprocess.Popen(cmd, stdout=PIPE, stderr=STDOUT); returns the handle
SubprocessRunner ==
    /\ pc = "w_launch"
    /\ \E s \in WaitScripts : script' = s /\ toWrite' = s
    /\ procPresent' = TRUE
    /\ procState' = "running"
    /\ pc' = "w_create"
    /\ UNCHANGED <<op, opt, pipe, exitCode, returncode, terminateCalled,
                   sinkVars, canceled, pairVars, noHostShown, errShown, ret,
                   outcome, reaperVars, ghostVars, fault,
                   launchVars>>

\* wait_or_cancel called with proc = None
AbsentProc ==
    /\ pc = "w_launch"
    /\ pc' = "w_create"
    /\ UNCHANGED <<op, opt, procVars, returncode, terminateCalled, sinkVars,
                   canceled, pairVars, noHostShown, errShown, ret, outcome,
                   reaperVars, ghostVars, fault,
                   launchVars>>

----------------------------------------------------------------------------
(* utils.wait_or_cancel *)

\* pDialog = xbmcgui.DialogProgress(); pDialog.create(title, "")
WaitCreate ==
    /\ pc = "w_create"
    /\ Create
    /\ pc' = "w_loop"
    /\ UNCHANGED <<op, opt, procVars, returncode, terminateCalled, canceled,
                   pairVars, noHostShown, errShown, ret, outcome, reaperVars,
                   ghostVars, fault,
                   launchVars>>

\* while proc and proc.poll() is None and not pDialog.iscanceled():
\* (short-circuit: iscanceled() is sampled only when poll() returned None)
LoopTest(body, after) ==
    /\ IF ~procPresent
       THEN /\ loopExit' = "absent"
            /\ pc' = after
            /\ UNCHANGED <<returncode, cancelAtObs, reported>>
       ELSE IF procState = "exited"
       THEN /\ returncode' = Code(exitCode)
            /\ loopExit' = "exit"
            /\ cancelAtObs' = canceled
            /\ pc' = after
            /\ UNCHANGED reported
       ELSE /\ reported' = (reported \/ canceled)
            /\ loopExit' = IF canceled THEN "cancel" ELSE loopExit
            /\ pc' = IF canceled THEN after ELSE body
            /\ UNCHANGED <<returncode, cancelAtObs>>
    /\ UNCHANGED <<op, opt, procVars, terminateCalled, sinkVars, canceled,
                   pairVars, noHostShown, errShown, ret, outcome, reaperVars,
                   cancelBeforeExit, fault,
                   launchVars>>

WaitLoopTest ==
    /\ pc = "w_loop"
    /\ LoopTest("w_update", "w_try")

\* pDialog.update(50, message)
WaitUpdate ==
    /\ pc = "w_update"
    /\ Update(50, Message)
    /\ pc' = "w_loop"
    /\ UNCHANGED <<op, opt, procVars, returncode, terminateCalled, canceled,
                   pairVars, noHostShown, errShown, ret, outcome, reaperVars,
                   ghostVars, fault,
                   launchVars>>

\* variant: the exception is not caught and reaches the caller
WaitExcept_Propagates(kind) ==
    /\ fault' = kind
    /\ outcome' = "raised"
    /\ pc' = "done"
    /\ UNCHANGED ret

\* except Exception: return (-1, "")
WaitExcept(kind) ==
    /\ fault' = kind
    /\ ret' = [exitcode |-> -1, stdout |-> Str(<<>>)]
    /\ outcome' = "returned"
    /\ pc' = "done"

\* variant: the success branch returns without reporting 100% "Complete!"
WaitDrain_NoComplete ==
    /\ pc = "w_try"
    /\ ~canceled
    /\ IF ~procPresent
       THEN /\ WaitExcept("absent")
            /\ UNCHANGED <<pipe, returncode, sinkVars, errShown>>
       ELSE /\ procState = "exited"
            /\ pipe' = <<>>
            /\ returncode' = Code(exitCode)
            /\ IF ~Decodable(pipe)
               THEN /\ WaitExcept("decode")
                    /\ UNCHANGED <<sinkVars, errShown>>
               ELSE /\ ret' = [exitcode |-> exitCode, stdout |-> Str(pipe)]
                    /\ pc' = "w_close"
                    /\ IF exitCode = 0
                       THEN UNCHANGED <<sinkVars, errShown>>
                       ELSE errShown' = Append(errShown, pipe) /\ UNCHANGED sinkVars
                    /\ UNCHANGED <<fault, outcome>>
    /\ UNCHANGED <<op, opt, procPresent, procState, script, toWrite, exitCode,
                   terminateCalled, canceled, pairVars, noHostShown,
                   reaperVars, ghostVars,
                   launchVars>>

\* variant: a non-zero exit code is returned without the error dialog
WaitDrain_SilentFailure ==
    /\ pc = "w_try"
    /\ ~canceled
    /\ IF ~procPresent
       THEN /\ WaitExcept("absent")
            /\ UNCHANGED <<pipe, returncode, sinkVars, errShown>>
       ELSE /\ procState = "exited"
            /\ pipe' = <<>>
            /\ returncode' = Code(exitCode)
            /\ IF ~Decodable(pipe)
               THEN /\ WaitExcept("decode")
                    /\ UNCHANGED <<sinkVars, errShown>>
               ELSE /\ ret' = [exitcode |-> exitCode, stdout |-> Str(pipe)]
                    /\ pc' = "w_close"
                    /\ IF exitCode = 0
                       THEN Update(100, Complete) /\ UNCHANGED errShown
                       ELSE UNCHANGED <<sinkVars, errShown>>
                    /\ UNCHANGED <<fault, outcome>>
    /\ UNCHANGED <<op, opt, procPresent, procState, script, toWrite, exitCode,
                   terminateCalled, canceled, pairVars, noHostShown,
                   reaperVars, ghostVars,
                   launchVars>>

\* try: if not pDialog.iscanceled(): msg = proc.communicate()[0].decode() ...
\* communicate() returns once the process has exited, with all the bytes of
\* the pipe; on None it raises AttributeError, decode() raises on a bad byte.
WaitDrain ==
    /\ pc = "w_try"
    /\ ~canceled
    /\ IF ~procPresent
       THEN /\ WaitExcept("absent")
            /\ UNCHANGED <<pipe, returncode, sinkVars, errShown>>
       ELSE /\ procState = "exited"
            /\ pipe' = <<>>
            /\ returncode' = Code(exitCode)
            /\ IF ~Decodable(pipe)
               THEN /\ WaitExcept("decode")
                    /\ UNCHANGED <<sinkVars, errShown>>
               ELSE /\ ret' = [exitcode |-> exitCode, stdout |-> Str(pipe)]
                    /\ pc' = "w_close"
                    /\ IF exitCode = 0
                       THEN Update(100, Complete) /\ UNCHANGED errShown
                       ELSE errShown' = Append(errShown, pipe) /\ UNCHANGED sinkVars
                    /\ UNCHANGED <<fault, outcome>>
    /\ UNCHANGED <<op, opt, procPresent, procState, script, toWrite, exitCode,
                   terminateCalled, canceled, pairVars, noHostShown,
                   reaperVars, ghostVars,
                   launchVars>>

\* variant: the cancel branch returns the sentinel without terminating
WaitTerminate_NoTerminate ==
    /\ pc = "w_try"
    /\ canceled
    /\ reported' = TRUE
    /\ IF ~procPresent
       THEN WaitExcept("absent")
       ELSE /\ ret' = [exitcode |-> 1, stdout |-> None]
            /\ pc' = "w_close"
            /\ UNCHANGED <<fault, outcome>>
    /\ UNCHANGED <<op, opt, procVars, returncode, terminateCalled, sinkVars,
                   canceled, pairVars, noHostShown, errShown, reaperVars,
                   loopExit, cancelAtObs, cancelBeforeExit,
                   launchVars>>

\* else: proc.terminate(); stdout = None; exitcode = 1
\* terminate() on None raises AttributeError; os.kill may raise OSError.
WaitTerminate ==
    /\ pc = "w_try"
    /\ canceled
    /\ reported' = TRUE
    /\ IF ~procPresent
       THEN WaitExcept("absent") /\ UNCHANGED terminateCalled
       ELSE /\ terminateCalled' = TRUE
            /\ \E raises \in BOOLEAN :
                 IF raises
                 THEN WaitExcept("terminate")
                 ELSE /\ ret' = [exitcode |-> 1, stdout |-> None]
                      /\ pc' = "w_close"
                      /\ UNCHANGED <<fault, outcome>>
    /\ UNCHANGED <<op, opt, procVars, returncode, sinkVars, canceled,
                   pairVars, noHostShown, errShown, reaperVars, loopExit,
                   cancelAtObs, cancelBeforeExit,
                   launchVars>>

\* pDialog.close(); return (exitcode, stdout)
WaitClose ==
    /\ pc = "w_close"
    /\ Close
    /\ outcome' = "returned"
    /\ pc' = "done"
    /\ UNCHANGED <<op, opt, procVars, returncode, terminateCalled, canceled,
                   pairVars, noHostShown, errShown, ret, reaperVars,
                   ghostVars, fault,
                   launchVars>>

----------------------------------------------------------------------------
(* moonlight.run_moonlight("pair", hostip, blockio=False) and              *)
(* utils.stop_old_container                                                *)

\* opt = xbmcgui.Dialog().yesno("Pairing", ...); if opt:
PairYesNo ==
    /\ pc = "p_yesno"
    /\ \E o \in BOOLEAN :
         /\ opt' = o
         /\ pc' = IF o THEN "rm_ps" ELSE "done"
         /\ outcome' = IF o THEN outcome ELSE "returned"
    /\ UNCHANGED <<op, procVars, returncode, terminateCalled, sinkVars,
                   canceled, pairVars, noHostShown, errShown, ret, reaperVars,
                   ghostVars, fault,
                   launchVars>>

\* the test of stop_old_container on the text of the listing
InListing(name, check) == \E c \in check : IsSub(name, c)

\* variant: any successful listing leads to a stop command
StopOldContainerList_StopAlways ==
    /\ pc = "rm_ps"
    /\ \E ok \in BOOLEAN :
         /\ listing' = IF ~ok THEN "failed"
                       ELSE IF InListing(ContainerName, running)
                       THEN "present" ELSE "absent"
         /\ pc' = IF ok THEN "rm_stop" ELSE "rm_host"
    /\ UNCHANGED <<op, opt, procVars, returncode, terminateCalled, sinkVars,
                   canceled, pairVars, noHostShown, errShown, ret, outcome,
                   running, stopInFlight, stopCount, ghostVars, fault,
                   launchVars>>

\* check = subprocess_runner_blocking("docker ps"...): the listing, or None
\* when the command fails (CalledProcessError); if check and container in check:
StopOldContainerList ==
    /\ pc = "rm_ps"
    /\ \E ok \in BOOLEAN :
         /\ listing' = IF ~ok THEN "failed"
                       ELSE IF InListing(ContainerName, running)
                       THEN "present" ELSE "absent"
         /\ pc' = IF ok /\ InListing(ContainerName, running)
                  THEN "rm_stop" ELSE "rm_host"
    /\ UNCHANGED <<op, opt, procVars, returncode, terminateCalled, sinkVars,
                   canceled, pairVars, noHostShown, errShown, ret, outcome,
                   running, stopInFlight, stopCount, ghostVars, fault,
                   launchVars>>

\* subprocess_runner("docker container stop <name>"): Popen, not waited for
StopOldContainerStop ==
    /\ pc = "rm_stop"
    /\ stopInFlight' = TRUE
    /\ stopCount' = stopCount + 1
    /\ pc' = "rm_host"
    /\ UNCHANGED <<op, opt, procVars, returncode, terminateCalled, sinkVars,
                   canceled, pairVars, noHostShown, errShown, ret, outcome,
                   running, listing, ghostVars, fault,
                   launchVars>>

\* variant: the message is shown but the launch goes on (no return)
RunMoonlightHost_LaunchAnyway ==
    /\ pc = "rm_host"
    /\ \E hostip \in BOOLEAN, hostFound \in BOOLEAN :
         noHostShown' = (~hostip /\ ~hostFound)
    /\ pc' = "rm_launch"
    /\ UNCHANGED <<op, opt, procVars, returncode, terminateCalled, sinkVars,
                   canceled, pairVars, errShown, ret, outcome, reaperVars,
                   ghostVars, fault,
                   launchVars>>

\* if not hostip and not host_check(): Dialog().ok("Error", ...); return None
RunMoonlightHost ==
    /\ pc = "rm_host"
    /\ \E hostip \in BOOLEAN, hostFound \in BOOLEAN :
         IF ~hostip /\ ~hostFound
         THEN noHostShown' = TRUE /\ pc' = "p_create"
         ELSE UNCHANGED noHostShown /\ pc' = "rm_launch"
    /\ UNCHANGED <<op, opt, procVars, returncode, terminateCalled, sinkVars,
                   canceled, pairVars, errShown, ret, outcome, reaperVars,
                   ghostVars, fault,
                   launchVars>>

\* return subprocess_runner(cmd, "moonlight pair", blockio): Popen docker run
RunMoonlightLaunch ==
    /\ pc = "rm_launch"
    /\ \E s \in PairScripts : script' = s /\ toWrite' = s
    /\ procPresent' = TRUE
    /\ procState' = "running"
    /\ pc' = "p_create"
    /\ UNCHANGED <<op, opt, pipe, exitCode, returncode, terminateCalled,
                   sinkVars, canceled, pairVars, noHostShown, errShown, ret,
                   outcome, reaperVars, ghostVars, fault,
                   launchVars>>

----------------------------------------------------------------------------
(* moonlight.pair *)

\* pDialog.create("Pairing", "Launching pairing...")
PairCreate ==
    /\ pc = "p_create"
    /\ Create
    /\ pc' = "p_loop"
    /\ UNCHANGED <<op, opt, procVars, returncode, terminateCalled, canceled,
                   pairVars, noHostShown, errShown, ret, outcome, reaperVars,
                   ghostVars, fault,
                   launchVars>>

PairLoopTest ==
    /\ pc = "p_loop"
    /\ LoopTest("p_body", "p_after")

\* try: stdout += proc.stdout.read().decode()  except: pass
\* The non-blocking read returns the bytes of the pipe, or None when it is
\* empty; None.decode() and a failing decode() are swallowed.
ReadChunk(acc, bytes) ==
    IF bytes # <<>> /\ Decodable(bytes) THEN acc \o bytes ELSE acc

\* one iteration of the poll loop: read, then scan unless codeFlag
PairBody ==
    /\ pc = "p_body"
    /\ stdout' = ReadChunk(stdout, pipe)
    /\ pipe' = <<>>
    /\ IF ~codeFlag /\ PinFound(stdout')
       THEN /\ codeFlag' = TRUE
            /\ pinShown' = Append(pinShown, PinGroup(stdout'))
            /\ Update(50, PinMessage(PinGroup(stdout')))
       ELSE UNCHANGED <<codeFlag, pinShown, sinkVars>>
    /\ pc' = "p_loop"
    /\ UNCHANGED <<op, opt, procPresent, procState, script, toWrite, exitCode,
                   returncode, terminateCalled, canceled, alreadyShown,
                   noHostShown, errShown, ret, outcome, reaperVars, ghostVars,
                   fault,
                   launchVars>>

\* variant: an exception of proc.terminate() reaches the caller of pair
PairSwallow_Propagates(kind) ==
    /\ fault' = kind
    /\ outcome' = IF kind = "none" THEN outcome ELSE "raised"
    /\ pc' = IF kind = "none" THEN "p_close" ELSE "done"

\* try: proc.terminate()  except Exception: pass
\* kind is the exception raised by terminate(), "none" when it raised none
PairSwallow(kind) ==
    /\ fault' = kind
    /\ pc' = "p_close"
    /\ UNCHANGED outcome

\* if proc and not pDialog.iscanceled() and proc.returncode == 0:
\*     pDialog.update(100, "Complete!"); time.sleep(3)
\* else: try: proc.terminate()  except Exception: pass
\* terminate() on None raises AttributeError; os.kill may raise OSError.
PairAfter ==
    /\ pc = "p_after"
    /\ reported' = (reported \/ (procPresent /\ canceled))
    /\ IF procPresent /\ ~canceled /\ returncode = Code(0)
       THEN /\ Update(100, Complete)
            /\ pc' = "p_close"
            /\ UNCHANGED <<terminateCalled, fault, outcome>>
       ELSE /\ terminateCalled' = procPresent
            /\ UNCHANGED sinkVars
            /\ IF ~procPresent
               THEN PairSwallow("absent")
               ELSE \E raises \in BOOLEAN :
                      PairSwallow(IF raises THEN "terminate" ELSE "none")
    /\ UNCHANGED <<op, opt, procVars, returncode, canceled, pairVars,
                   noHostShown, errShown, ret, reaperVars, loopExit,
                   cancelAtObs, cancelBeforeExit,
                   launchVars>>

\* variant: the dialog is closed only when a process was launched
PairClose_OnlyWithProc ==
    /\ pc = "p_close"
    /\ IF procPresent THEN Close ELSE UNCHANGED sinkVars
    /\ pc' = "p_already"
    /\ UNCHANGED <<op, opt, procVars, returncode, terminateCalled, canceled,
                   pairVars, noHostShown, errShown, ret, outcome, reaperVars,
                   ghostVars, fault,
                   launchVars>>

\* pDialog.close()
PairClose ==
    /\ pc = "p_close"
    /\ Close
    /\ pc' = "p_already"
    /\ UNCHANGED <<op, opt, procVars, returncode, terminateCalled, canceled,
                   pairVars, noHostShown, errShown, ret, outcome, reaperVars,
                   ghostVars, fault,
                   launchVars>>

\* if re.search(r"Failed to pair to server: Already paired", stdout):
\*     Dialog().ok("Pairing", "Gamestream credentials already exist ...")
PairAlready ==
    /\ pc = "p_already"
    /\ alreadyShown' = AlreadyFound(stdout)
    /\ outcome' = "returned"
    /\ pc' = "done"
    /\ UNCHANGED <<op, opt, procVars, returncode, terminateCalled, sinkVars,
                   canceled, stdout, codeFlag, pinShown, noHostShown, errShown,
                   ret, reaperVars, ghostVars, fault,
                   launchVars>>

----------------------------------------------------------------------------
Next ==
    \/ ProcWrite
    \/ ProcExit
    \/ UserCancel
    \/ StopCompletes
    \/ SubprocessRunner
    \/ AbsentProc
    \/ WaitCreate
    \/ WaitLoopTest
    \/ WaitUpdate
    \/ WaitDrain
    \/ WaitTerminate
    \/ WaitClose
    \/ PairYesNo
    \/ StopOldContainerList
    \/ StopOldContainerStop
    \/ RunMoonlightHost
    \/ RunMoonlightLaunch
    \/ PairCreate
    \/ PairLoopTest
    \/ PairBody
    \/ PairAfter
    \/ PairClose
    \/ PairAlready

Spec == Init /\ [][Next]_vars

\* the statements of the supervising thread (a busy loop that keeps running)
Supervisor ==
    \/ SubprocessRunner \/ AbsentProc \/ WaitCreate \/ WaitLoopTest
    \/ WaitUpdate \/ WaitDrain \/ WaitTerminate \/ WaitClose
    \/ PairYesNo \/ StopOldContainerList \/ StopOldContainerStop
    \/ RunMoonlightHost \/ RunMoonlightLaunch \/ PairCreate \/ PairLoopTest
    \/ PairBody \/ PairAfter \/ PairClose \/ PairAlready

\* The thread keeps running and the operating system keeps scheduling the
\* child processes; the user is free never to cancel.
FairSpec ==
    /\ Spec
    /\ WF_vars(Supervisor)
    /\ WF_vars(ProcWrite)
    /\ WF_vars(ProcExit)
    /\ WF_vars(StopCompletes)

----------------------------------------------------------------------------
(* moonlight.load_installed_games and moonlight.launch *)

Newline == "\n"
Space == " "
ListTexts == SeqsUpTo({"4", ".", Space, "Game", Newline}, MaxListLen)

List(l) == [tag |-> "list", val |-> l]

\* str.splitlines(): the lines between the newlines, no empty last line
RECURSIVE SplitLines(_)
SplitLines(t) ==
    IF t = <<>> THEN <<>>
    ELSE IF \E k \in 1..Len(t) : t[k] = Newline
    THEN LET k == CHOOSE i \in 1..Len(t) :
                      t[i] = Newline /\ \A j \in 1..(i - 1) : t[j] # Newline
         IN <<SubSeq(t, 1, k - 1)>> \o SplitLines(SubSeq(t, k + 1, Len(t)))
    ELSE <<t>>

\* re.search('^\d+\.', game)
GameMatch(game) ==
    \E k \in 1..(Len(game) - 1) :
        /\ \A j \in 1..k : game[j] \in Digits
        /\ game[k + 1] = "."

\* the values wait_or_cancel returns for a process that wrote s
WaitResults(s) ==
    {[exitcode |-> c, stdout |-> Str(s)] : c \in ExitCodes}
        \cup {[exitcode |-> 1, stdout |-> None],
              [exitcode |-> -1, stdout |-> Str(<<>>)]}

\* if status == 0 and result: return [game for game in result.splitlines()
\*                                    if re.search('^\d+\.', game)]
GameList(status, result) ==
    IF status = 0 /\ result.tag = "str" /\ result.val # <<>>
    THEN List(SelectSeq(SplitLines(result.val), GameMatch))
    ELSE None

\* gameList = load_installed_games(hostip): proc = run_moonlight("list", ...);
\* if proc: (status, result) = wait_or_cancel(proc, "List", ...)
LoadInstalledGames ==
    /\ pc = "l_load"
    /\ \/ /\ procPresent' = FALSE
          /\ gameList' = None
          /\ UNCHANGED <<script, ret>>
       \/ \E s \in ListTexts : \E r \in WaitResults(s) :
            /\ procPresent' = TRUE
            /\ script' = s
            /\ ret' = r
            /\ gameList' = GameList(r.exitcode, r.stdout)
    /\ pc' = "l_check"
    /\ UNCHANGED <<op, opt, procState, toWrite, pipe, exitCode, returncode,
                   terminateCalled, sinkVars, canceled, pairVars, noHostShown,
                   errShown, outcome, reaperVars, ghostVars, fault, gameIdx,
                   selectedGame, launchMsg, kodi, kodiStops, kodiStarts,
                   streamRuns, streamWaits>>

\* if not gameList: xbmcgui.Dialog().ok("No games found."); return
LaunchCheckGames ==
    /\ pc = "l_check"
    /\ IF gameList.val = <<>>
       THEN launchMsg' = "No games found." /\ outcome' = "returned" /\ pc' = "done"
       ELSE UNCHANGED <<launchMsg, outcome>> /\ pc' = "l_select"
    /\ UNCHANGED <<op, opt, procVars, returncode, terminateCalled, sinkVars,
                   canceled, pairVars, noHostShown, errShown, ret, reaperVars,
                   ghostVars, fault, gameList, gameIdx, selectedGame, kodi,
                   kodiStops, kodiStarts, streamRuns, streamWaits>>

\* gameList[gameIdx].split(" ", 1)[1]: the text after the first blank
\* (IndexError when the line has no blank)
HasBlank(line) == \E k \in 1..Len(line) : line[k] = Space
AfterBlank(line) ==
    LET k == CHOOSE i \in 1..Len(line) :
                 line[i] = Space /\ \A j \in 1..(i - 1) : line[j] # Space
    IN SubSeq(line, k + 1, Len(line))

\* gameIdx = dialog.select(...); if gameIdx == -1: ok(...); return
\* selectedGame = gameList[gameIdx].split(" ", 1)[1].replace("\n", "")
LaunchSelect ==
    /\ pc = "l_select"
    /\ \E idx \in {-1} \cup (0..(Len(gameList.val) - 1)) :
         /\ gameIdx' = idx
         /\ IF idx = -1
            THEN /\ launchMsg' = "No valid game selected."
                 /\ outcome' = "returned" /\ pc' = "done"
                 /\ UNCHANGED selectedGame
            ELSE IF ~HasBlank(gameList.val[idx + 1])
            THEN /\ outcome' = "raised" /\ pc' = "done"
                 /\ UNCHANGED <<selectedGame, launchMsg>>
            ELSE /\ selectedGame' = AfterBlank(gameList.val[idx + 1])
                 /\ pc' = "l_stop"
                 /\ UNCHANGED <<outcome, launchMsg>>
    /\ UNCHANGED <<op, opt, procVars, returncode, terminateCalled, sinkVars,
                   canceled, pairVars, noHostShown, errShown, ret, reaperVars,
                   ghostVars, fault, gameList, kodi, kodiStops, kodiStarts,
                   streamRuns, streamWaits>>

\* os.system("systemctl stop kodi")
LaunchStopKodi ==
    /\ pc = "l_stop"
    /\ kodi' = "stopped"
    /\ kodiStops' = kodiStops + 1
    /\ pc' = "l_run"
    /\ UNCHANGED <<op, opt, procVars, returncode, terminateCalled, sinkVars,
                   canceled, pairVars, noHostShown, errShown, ret, outcome,
                   reaperVars, ghostVars, fault, gameList, gameIdx,
                   selectedGame, launchMsg, kodiStarts, streamRuns,
                   streamWaits>>

\* os.system('docker run --rm --name moonlight ... stream ...'): the exit
\* status of the command is ignored
LaunchRunStream ==
    /\ pc = "l_run"
    /\ streamRuns' = streamRuns + 1
    /\ pc' = "l_wait"
    /\ UNCHANGED <<op, opt, procVars, returncode, terminateCalled, sinkVars,
                   canceled, pairVars, noHostShown, errShown, ret, outcome,
                   reaperVars, ghostVars, fault, gameList, gameIdx,
                   selectedGame, launchMsg, kodi, kodiStops, kodiStarts,
                   streamWaits>>

\* variant: a return right after the wait, leaving the front-end stopped
LaunchWaitStream_Returns ==
    /\ pc = "l_wait"
    /\ streamWaits' = streamWaits + 1
    /\ outcome' = "returned"
    /\ pc' = "done"
    /\ UNCHANGED <<op, opt, procVars, returncode, terminateCalled, sinkVars,
                   canceled, pairVars, noHostShown, errShown, ret,
                   reaperVars, ghostVars, fault, gameList, gameIdx,
                   selectedGame, launchMsg, kodi, kodiStops, kodiStarts,
                   streamRuns>>

\* os.system("docker wait moonlight")
LaunchWaitStream ==
    /\ pc = "l_wait"
    /\ streamWaits' = streamWaits + 1
    /\ pc' = "l_start"
    /\ UNCHANGED <<op, opt, procVars, returncode, terminateCalled, sinkVars,
                   canceled, pairVars, noHostShown, errShown, ret, outcome,
                   reaperVars, ghostVars, fault, gameList, gameIdx,
                   selectedGame, launchMsg, kodi, kodiStops, kodiStarts,
                   streamRuns>>

\* os.system("systemctl start kodi")
LaunchStartKodi ==
    /\ pc = "l_start"
    /\ kodi' = "running"
    /\ kodiStarts' = kodiStarts + 1
    /\ outcome' = "returned"
    /\ pc' = "done"
    /\ UNCHANGED <<op, opt, procVars, returncode, terminateCalled, sinkVars,
                   canceled, pairVars, noHostShown, errShown, ret,
                   reaperVars, ghostVars, fault, gameList, gameIdx,
                   selectedGame, launchMsg, kodiStops, streamRuns,
                   streamWaits>>

InitLaunch ==
    /\ op = "launch"
    /\ pc = "l_load"
    /\ opt = FALSE
    /\ procPresent = FALSE
    /\ procState = "none"
    /\ script = <<>>
    /\ toWrite = <<>>
    /\ pipe = <<>>
    /\ exitCode = 0
    /\ returncode = NoCode
    /\ terminateCalled = FALSE
    /\ sinkState = "new"
    /\ closeCount = 0
    /\ lastUpdate = NoUpdate
    /\ updAfterClose = FALSE
    /\ canceled = FALSE
    /\ stdout = <<>>
    /\ codeFlag = FALSE
    /\ pinShown = <<>>
    /\ alreadyShown = FALSE
    /\ noHostShown = FALSE
    /\ errShown = <<>>
    /\ ret = [exitcode |-> 0, stdout |-> None]
    /\ outcome = "running"
    /\ running = {}
    /\ stopInFlight = FALSE
    /\ stopCount = 0
    /\ listing = "none"
    /\ loopExit = "none"
    /\ cancelAtObs = FALSE
    /\ cancelBeforeExit = FALSE
    /\ reported = FALSE
    /\ fault = "none"
    /\ gameList = None
    /\ gameIdx = -1
    /\ selectedGame = <<>>
    /\ launchMsg = "none"
    /\ kodi = "running"
    /\ kodiStops = 0
    /\ kodiStarts = 0
    /\ streamRuns = 0
    /\ streamWaits = 0

NextLaunch ==
    \/ LoadInstalledGames
    \/ LaunchCheckGames
    \/ LaunchSelect
    \/ LaunchStopKodi
    \/ LaunchRunStream
    \/ LaunchWaitStream
    \/ LaunchStartKodi

SpecLaunch == InitLaunch /\ [][NextLaunch]_vars

----------------------------------------------------------------------------
(* Properties *)

CancelSentinel == [exitcode |-> 1, stdout |-> None]
FaultResult == [exitcode |-> -1, stdout |-> Str(<<>>)]
WaitReturned == op = "wait" /\ outcome = "returned"
PairReturned == op = "pair" /\ outcome = "returned" /\ opt

\* C1: whenever wait_or_cancel returns for a present process, on any exit
\* path, the progress dialog it created has been closed.
C1_SinkClosedOnReturn ==
    (WaitReturned /\ procPresent) => sinkState = "closed"

\* C2: a stop command issued by stop_old_container has completed before the
\* launch in run_moonlight starts (the launched process never coexists with
\* an in-flight stop), and at most one stop is issued.
C2_StopCompletesBeforeLaunch ==
    (op = "pair" /\ procState # "none") => (~stopInFlight /\ stopCount <= 1)

\* C3: once the poll loop has observed the exit of the process with the
\* dialog not yet cancelled, a later cancel changes nothing: wait_or_cancel
\* (no exception raised) returns (exit code, output), and an exit code 0 is
\* reported as 100% "Complete!", in wait_or_cancel and in pair.
C3_CompletionWinsRace ==
    /\ (WaitReturned /\ loopExit = "exit" /\ ~cancelAtObs /\ fault = "none")
          => /\ ret = [exitcode |-> exitCode, stdout |-> Str(script)]
             /\ (exitCode = 0 => lastUpdate = <<100, Complete>>)
    /\ (PairReturned /\ loopExit = "exit" /\ ~cancelAtObs /\ exitCode = 0)
          => lastUpdate = <<100, Complete>>

ExitedZeroUncancelled ==
    /\ WaitReturned /\ procPresent
    /\ procState = "exited" /\ exitCode = 0 /\ ~reported

C6_OnePinDisclosure ==
    /\ Len(pinShown) <= 1
    /\ (op = "pair" /\ script \in PinScripts /\ stdout = script)
          => pinShown = <<SubSeq(script, Len(PinLiteral) + 1, Len(script))>>

\* C7: when the helper wrote the already-paired sentence and exited with a
\* non-zero code and the dialog was not cancelled, pair shows the
\* already-paired message.
C7_AlreadyPairedShown ==
    (PairReturned /\ script = AlreadyLiteral /\ procState = "exited"
        /\ exitCode # 0 /\ ~canceled) => alreadyShown

\* C8: a pairing session the user consented to closes the dialog exactly
\* once, on every path, and never updates it after the close.
C8_ClosedExactlyOnce ==
    op = "pair" =>
        /\ closeCount <= 1
        /\ ~updAfterClose
        /\ PairReturned => (closeCount = 1 /\ sinkState = "closed")

C8_Witness ==
    /\ PairReturned /\ ~procPresent /\ noHostShown
    /\ closeCount = 1 /\ sinkState = "closed"

\* C9: wait_or_cancel called with None makes no heartbeat update and closes
\* the dialog before returning.
C9_AbsentShortCircuit ==
    (WaitReturned /\ ~procPresent)
        => (sinkState = "closed" /\ lastUpdate = NoUpdate)

\* C10: an exception raised in the try block of wait_or_cancel (draining,
\* decoding, terminating) never reaches the caller: the call returns (-1, "").
C10_FaultCaught ==
    op = "wait" =>
        /\ outcome # "raised"
        /\ fault # "none" => (outcome = "returned" /\ ret = FaultResult)

C10_Witness ==
    WaitReturned /\ procPresent /\ fault = "decode" /\ ret = FaultResult

ExitedNonZeroUncancelled ==
    /\ WaitReturned /\ procPresent
    /\ procState = "exited" /\ exitCode # 0 /\ ~reported

C12_NoStopWhenAbsent ==
    (op = "pair" /\ listing \in {"failed", "absent"})
        => /\ stopCount = 0 /\ ~stopInFlight /\ pc # "rm_stop"
           /\ pc = "rm_host" => procState = "none"

C12_Witness ==
    /\ op = "pair" /\ pc = "rm_host" /\ listing = "failed"
    /\ ContainerName \in running /\ stopCount = 0

\* C13: a new instance of a name is never started while an earlier instance
\* of that name is still running or still being stopped.
C13_OneLiveInstance ==
    (op = "pair" /\ procState = "running") => ContainerName \notin running

\* C14: when no host is given and none is discovered, run_moonlight shows the
\* "no host detected" message and launches no helper, and pair ends without
\* entering the poll loop, without any PIN or "Complete!" update and without
\* raising.
C14_NoHostNoLaunch ==
    (op = "pair" /\ noHostShown)
        => /\ ~procPresent /\ procState = "none"
           /\ pc \notin {"rm_launch", "p_body"}
           /\ lastUpdate = NoUpdate /\ pinShown = <<>>
           /\ outcome # "raised"
           /\ pc \in {"p_after", "p_close", "p_already", "done"}
                 => loopExit = "absent"

C14_Witness ==
    /\ PairReturned /\ noHostShown /\ loopExit = "absent"
    /\ lastUpdate = NoUpdate /\ ~alreadyShown

\* C17: when the poll loop of pair ended on a cancel, terminate() is called
\* before the dialog is closed, and an exception of terminate() neither
\* reaches the caller nor keeps the dialog from being closed.
C17_CancelTerminatesThenCloses ==
    (op = "pair" /\ loopExit = "cancel")
        => /\ pc \in {"p_close", "p_already", "done"} => terminateCalled
           /\ sinkState = "closed" => terminateCalled
           /\ outcome # "raised"
           /\ pc = "done" => (outcome = "returned" /\ sinkState = "closed")

C17_Witness ==
    /\ PairReturned /\ loopExit = "cancel" /\ fault = "terminate"
    /\ terminateCalled /\ sinkState = "closed"

\* C18: a pairing session that reached the poll loop ends in exactly one
\* terminal outcome: the already-paired message is never shown in a session
\* that was cancelled nor in one that reported 100% "Complete!".
C18_ExclusiveOutcome ==
    (PairReturned /\ procPresent /\ alreadyShown)
        => (~reported /\ lastUpdate # <<100, Complete>>)

\* C19: a helper given to wait_or_cancel that exits once its output is
\* written is eventually seen to exit, and the call returns its exit code
\* with all its output, unless the user cancels; whatever the size of the
\* output relative to the capacity of the pipe.
C19_ProcessFinishes ==
    (op = "wait" /\ procPresent /\ Decodable(script))
        ~> \/ canceled
           \/ /\ outcome = "returned"
              /\ ret = [exitcode |-> exitCode, stdout |-> Str(script)]

\* a line of the form "<integer>. <game name>"
IsGameLine(line) ==
    \E k \in 1..(Len(line) - 3) :
        /\ \A j \in 1..k : line[j] \in Digits
        /\ line[k + 1] = "."
        /\ line[k + 2] = Space

\* C15: when wait_or_cancel reports exit code 0 with the non-empty output of
\* the list helper, load_installed_games returns exactly the lines of the
\* form "<integer>. <game name>", in order; when the helper failed, was
\* cancelled or was never launched, it returns no list.
C15_GameListExact ==
    (op = "launch" /\ pc # "l_load")
        => /\ (procPresent /\ script # <<>>
                 /\ ret = [exitcode |-> 0, stdout |-> Str(script)])
                 => gameList = List(SelectSeq(SplitLines(script), IsGameLine))
           /\ (~procPresent \/ ret.exitcode # 0) => gameList = None

\* C16: launch stops the front-end only after a game list was obtained and a
\* valid game was selected; once stopped, the stream is run, then waited
\* for, then the front-end is started: every stop is followed by exactly one
\* start and launch never ends with the front-end stopped.
C16_StopThenStart ==
    op = "launch" =>
        /\ kodiStops <= 1 /\ kodiStarts <= kodiStops
        /\ kodiStops = 1 =>
              /\ gameList.tag = "list"
              /\ gameIdx \in 0..(Len(gameList.val) - 1)
              /\ selectedGame = AfterBlank(gameList.val[gameIdx + 1])
        /\ kodi = "stopped" <=> pc \in {"l_run", "l_wait", "l_start"}
        /\ pc = "l_run" => (streamRuns = 0 /\ streamWaits = 0)
        /\ pc = "l_wait" => (streamRuns = 1 /\ streamWaits = 0)
        /\ pc = "l_start" => (streamRuns = 1 /\ streamWaits = 1)
        /\ pc = "done" =>
              /\ kodi = "running" /\ kodiStarts = kodiStops
              /\ streamRuns = kodiStops /\ streamWaits = kodiStops

C16_Witness ==
    /\ op = "launch" /\ pc = "done" /\ outcome = "returned"
    /\ kodiStops = 1 /\ kodiStarts = 1 /\ kodi = "running"
    /\ streamRuns = 1 /\ streamWaits = 1
    /\ script = <<"4", ".", " ", "Game", "\n", "Game">>

====
